---------------------------- MODULE Spec2Model ----------------------------
(***************************************************************************)
(* A model of miku/esdump:                                                 *)
(*   - BasicScroller (src/scroll.go): the scroll session, its Next method  *)
(*     with the retry loop around the body copy, and initialRequest;       *)
(*   - MassQuery.Run in its two revisions: src/query.go (jobs started      *)
(*     without a gate, writer goroutine started after the loop) and        *)
(*     src/unnamed/part_003 (writer started first, jobs admitted through   *)
(*     a buffered channel of capacity 4).                                  *)
(* The server and the sink are the environment: every response, failure    *)
(* and write result is a nondeterministic choice.                          *)
(***************************************************************************)
EXTENDS Integers, Sequences, FiniteSets, TLC

(***************************************************************************)
(* Bounds of the model.                                                    *)
(***************************************************************************)
\* Next is called at most MaxCalls times in one session.
MaxCalls == 2
\* The caller sets BasicScroller.MaxRetries to a value in 0..MaxM.
MaxM == 1
\* A page holds 0..MaxHits hits.
MaxHits == 2
\* The server reports hits.total in 0..MaxTotal.
MaxTotal == 2
\* A continuation token has at most MaxTokLen characters.
MaxTokLen == 1
\* MassQuery.Queries holds 0..MaxQueries queries.
MaxQueries == 5
\* The identifier file has 0..MaxLines lines.
MaxLines == 4
\* The batch size (flag -size) is in 1..MaxSize.
MaxSize == 2
\* The fetch limit (flag -l) is in 0..MaxLimit.
MaxLimit == 2
\* In a run of main, the file of queries (flag -mq) has 0..MaxMq lines.
MaxMq == 3

(***************************************************************************)
(* Program constants.                                                      *)
(***************************************************************************)
\* scroll.go:102  retry = -3
RetryStart == -3
\* unnamed/part_003:51  sem := make(chan struct{}, 4)
ConcurrencyLimit == 4

(***************************************************************************)
(* Continuation tokens and their JSON form.  A token is a string over the  *)
(* characters 1 (a plain character) and 2 (a character that JSON escapes,  *)
(* such as the double quote); on the wire 0 stands for the backslash.      *)
(* The empty string <<>> is the zero value of BasicScroller.id.            *)
(***************************************************************************)
Chars == {1, 2}

Tokens == UNION {[1..n -> Chars] : n \in 0..MaxTokLen}

\* json.Encoder.Encode of a string field: escaped characters get a backslash.
RECURSIVE JSONEncode(_)
JSONEncode(s) ==
    IF s = <<>> THEN <<>>
    ELSE (IF Head(s) = 2 THEN <<0, 2>> ELSE <<Head(s)>>) \o JSONEncode(Tail(s))

\* json.Unmarshal / json.Decoder.Decode of a string field: the backslash is
\* dropped and the character after it is kept.
RECURSIVE JSONDecode(_)
JSONDecode(w) ==
    IF w = <<>> THEN <<>>
    ELSE IF Head(w) = 0
         THEN (IF Len(w) >= 2 THEN <<w[2]>> \o JSONDecode(Tail(Tail(w))) ELSE <<>>)
         ELSE <<Head(w)>> \o JSONDecode(Tail(w))

(***************************************************************************)
(* State of one BasicScroller and of the observer of its traffic.          *)
(***************************************************************************)
VARIABLES
    maxRetries, \* BasicScroller.MaxRetries
    id,         \* BasicScroller.id, the continuation token
    total,      \* BasicScroller.total
    err,        \* BasicScroller.err: "nil" or the kind of error
    buf,        \* BasicScroller.buf: the body last copied
    pc,         \* position of the caller: "idle" (between calls of Next) or
                \* "loop" (inside the retry loop of Next)
    retry,      \* local retry of Next
    ret,        \* what the last call of Next returned
    calls,      \* observer: number of calls of Next that returned or began
    nreq,       \* observer: number of requests handed to pester.Do
    lastReq,    \* observer: the last request sent
    attempts,   \* observer: requests sent by the current/last call of Next
    fails,      \* observer: body-read failures in the current/last call
    sumHits,    \* observer: hits of all pages the server sent whole and well-formed
    srvSid,     \* observer: the _scroll_id of the last whole, well-formed response
    lastKind,   \* observer: how the last call of Next ended
    script      \* observer: whether the responses so far follow a script of
                \* non-empty pages that sum to the reported total ("on"),
                \* have ended it with the empty page ("done"), or left it ("off")

svars == <<maxRetries, id, total, err, buf, pc, retry, ret, calls, nreq,
           lastReq, attempts, fails, sumHits, srvSid, lastKind, script>>

(***************************************************************************)
(* State of one call of MassQuery.Run: the goroutine that called Run       *)
(* ("main"), one job per query, the writer goroutine, the channels and     *)
(* the errgroup.                                                           *)
(***************************************************************************)
VARIABLES
    nq,      \* len(q.Queries)
    mpc,     \* position of main: "start", "loop", "wait", "close",
             \* "recvdone", "returned"
    mnext,   \* index of the query the loop of Run handles next
    qvar,    \* the loop variable query: index of the element it holds
    jpc,     \* position of each job: "idle" (not started), "started",
             \* "req" (request sent), "send" (at ch <- b), "release"
             \* (at <-sem), "ok" (returned nil), "err" (returned an error)
    mreq,    \* observer: the request a job sent last, as the job and the
             \* index of the query in its link
    sem,     \* number of elements in the channel sem
    gerr,    \* the error the errgroup keeps: index of the job, 0 for nil
    closed,  \* ch is closed
    wpc,     \* position of the writer: "none" (not started), "recv",
             \* "body", "newline", "check", "senddone", "exited"
    wblob,   \* the job whose body the writer holds (0: none)
    qErr,    \* q.Err is not nil
    sink,    \* what q.Writer has taken, in order
    runRet   \* what Run returned: "none" (not yet), "nil", "err"

mvars == <<nq, mpc, mnext, qvar, jpc, mreq, sem, gerr, closed, wpc, wblob, qErr,
           sink, runRet>>

(***************************************************************************)
(* State of identifierDump (cmd/esdump/main.go).  An identifier is named   *)
(* by its place among the identifier lines of the file.                    *)
(***************************************************************************)
VARIABLES
    isize,   \* *size, the batch size
    ilines,  \* the lines of the file: "id" (an identifier) or "skip" (a
             \* blank line or a comment)
    ilastnl, \* whether the last line ends with a newline
    ipos,    \* the number of lines br.ReadString has returned
    inext,   \* the number of identifier lines among them
    ibatch,  \* batch
    ireqs,   \* observer: the batches of the requests sent, in order
    iout,    \* the sink w: parts of responses, by the number of the request
    ipc,     \* "idle", "read", "returned"
    iret     \* what identifierDump returned: "none", "nil", "err", "panic"

ivars == <<isize, ilines, ilastnl, ipos, inext, ibatch, ireqs, iout, ipc, iret>>

(***************************************************************************)
(* State of the scroll loop of main (cmd/esdump/main.go), which drives a   *)
(* BasicScroller.                                                          *)
(***************************************************************************)
VARIABLES
    lsize,   \* *size, the page size asked for
    llimit,  \* *limit
    li,      \* i
    lpc      \* "idle", "call" (at ss.Next()), "body", "done"

lvars == <<lsize, llimit, li, lpc>>

vars == <<svars, mvars, ivars, lvars>>

\* What the server answers with: the number of hits of the page, the total
\* it reports, and the _scroll_id it hands out.
Responses == [hits : 0..MaxHits, total : 0..MaxTotal, sid : Tokens]

NoReq == [kind |-> "none", body |-> <<>>, method |-> "none", path |-> "none"]

\* scroll.go:64-70: the initiating request, GET {server}/{index}/_search
InitRequest ==
    [kind |-> "init", body |-> <<>>,
     method |-> "GET", path |-> "{server}/{index}/_search"]

\* A request that clears the scroll of the token.
ClearScrollRequest(tok) ==
    [kind |-> "scroll", body |-> JSONEncode(tok),
     method |-> "DELETE", path |-> "{server}/_search/scroll"]

\* scroll.go:113-130: the continuation request, GET {server}/_search/scroll
\* with the JSON payload {scroll, scroll_id}
ScrollRequest(tok) ==
    [kind |-> "scroll", body |-> JSONEncode(tok),
     method |-> "GET", path |-> "{server}/_search/scroll"]

\* No request of a job yet.
NoSearch == [job |-> 0, query |-> 0, method |-> "none", path |-> "none"]

\* query.go:33-35, part_003:57-59: pester.Get of the link of job j, built
\* with the k-th query: GET {server}/{index}/_search?size=..&q=..
SearchRequest(j, k) ==
    [job |-> j, query |-> k,
     method |-> "GET", path |-> "{server}/{index}/_search"]

\* A decoder that takes the characters of _scroll_id as they stand in the body.
DecodedRaw(b) == [hits |-> b.hits, total |-> b.total, sid |-> b.sidWire]

\* scroll.go:152, scroll.go:82: the SearchResponse decoded from a body
Decoded(b) == [hits |-> b.hits, total |-> b.total, sid |-> JSONDecode(b.sidWire)]

\* A count that is set to the page's hits instead of growing by them.
AddHitsOverwrite(tot, hits) == hits

\* scroll.go:156, scroll.go:85: s.total += len(sr.Hits.Hits)
AddHits(tot, hits) == tot + hits

\* The strict comparison of an earlier revision.
NextResultStrict(hits, tot, reported) == hits > 0 /\ tot < reported

\* The result of the first revision (unnamed/part_001:152): the page is not empty.
NextResultHitsOnly(hits, tot, reported) == hits > 0

\* scroll.go:163: the value a continuation Next returns after decoding
NextResult(hits, tot, reported) == hits > 0 /\ tot <= reported

EmptyBuf == [k |-> "empty", hits |-> 0, total |-> 0, sidWire |-> <<>>]

\* A whole, well-formed body as the server writes it and as it lies in
\* BasicScroller.buf: _scroll_id is a JSON string.
Body(r) == [k |-> "page", hits |-> r.hits, total |-> r.total,
            sidWire |-> JSONEncode(r.sid)]

\* A body cut by a read failure, and a whole body that does not decode: what
\* they hold is not looked at by the program.
PartialBuf == [k |-> "partial", hits |-> 0, total |-> 0, sidWire |-> <<>>]

GarbageBuf == [k |-> "garbage", hits |-> 0, total |-> 0, sidWire |-> <<>>]

\* The observer of the response script: r is the response just decoded, seen
\* the hits of the pages before it, prev the total reported before it (any
\* total fits the first response).
ScriptStep(state, r, seen, first, prev) ==
    IF state # "on" \/ (~first /\ r.total # prev) THEN "off"
    ELSE IF r.hits > 0 /\ seen + r.hits <= r.total THEN "on"
    ELSE IF r.hits = 0 /\ seen > 0 /\ seen = r.total THEN "done"
    ELSE "off"

SInit ==
    /\ maxRetries \in 0..MaxM
    /\ id = <<>>
    /\ total = 0
    /\ err = "nil"
    /\ buf = EmptyBuf
    /\ pc = "idle"
    /\ retry = 0
    /\ ret = FALSE
    /\ calls = 0
    /\ nreq = 0
    /\ lastReq = NoReq
    /\ attempts = 0
    /\ fails = 0
    /\ sumHits = 0
    /\ srvSid = <<>>
    /\ lastKind = "none"
    /\ script = "on"

(***************************************************************************)
(* BasicScroller.Next, scroll.go:93-164.                                   *)
(***************************************************************************)

\* Next without the test of s.err at its top: a terminal session with a
\* token goes into the retry loop again.
NextWithoutErrCheck ==
    /\ pc = "idle" /\ calls < MaxCalls
    /\ err # "nil"
    /\ retry' = RetryStart
    /\ pc' = "loop"
    /\ calls' = calls + 1
    /\ attempts' = 0 /\ fails' = 0
    /\ lastKind' = "running"
    /\ script' = "off"
    /\ UNCHANGED <<maxRetries, id, total, err, buf, ret, nreq, lastReq,
                   sumHits, srvSid>>

\* scroll.go:94-96: the session is terminal, Next returns false at once.
NextTerminal ==
    /\ pc = "idle" /\ calls < MaxCalls
    /\ err # "nil"
    /\ ret' = FALSE
    /\ calls' = calls + 1
    /\ attempts' = 0 /\ fails' = 0
    /\ lastKind' = "terminal"
    /\ script' = "off"
    /\ UNCHANGED <<maxRetries, id, total, err, buf, pc, retry, nreq, lastReq,
                   sumHits, srvSid>>

\* scroll.go:97-100 with initialRequest, scroll.go:61-88, where
\* http.NewRequest fails (line 70-73): nothing is sent.
InitialNewRequestFails ==
    /\ pc = "idle" /\ calls < MaxCalls
    /\ err = "nil" /\ id = <<>>
    /\ id' = <<>> /\ err' = "newrequest"
    /\ ret' = FALSE
    /\ calls' = calls + 1
    /\ attempts' = 0 /\ fails' = 0
    /\ lastKind' = "init_err"
    /\ script' = "off"
    /\ UNCHANGED <<maxRetries, total, buf, pc, retry, nreq, lastReq,
                   sumHits, srvSid>>

\* initialRequest where pester.Do returns an error (line 75-78).
InitialTransportFails ==
    /\ pc = "idle" /\ calls < MaxCalls
    /\ err = "nil" /\ id = <<>>
    /\ nreq' = nreq + 1 /\ lastReq' = InitRequest
    /\ id' = <<>> /\ err' = "transport"
    /\ ret' = FALSE
    /\ calls' = calls + 1
    /\ attempts' = 1 /\ fails' = 0
    /\ lastKind' = "init_err"
    /\ script' = "off"
    /\ UNCHANGED <<maxRetries, total, buf, pc, retry, sumHits, srvSid>>

\* initialRequest where the body does not decode (line 80-84): the buffer
\* holds what the decoder read through the tee, the count is untouched.
InitialDecodeFails ==
    /\ pc = "idle" /\ calls < MaxCalls
    /\ err = "nil" /\ id = <<>>
    /\ buf' \in {PartialBuf, GarbageBuf}
    /\ nreq' = nreq + 1 /\ lastReq' = InitRequest
    /\ id' = <<>> /\ err' = "decode"
    /\ ret' = FALSE
    /\ calls' = calls + 1
    /\ attempts' = 1 /\ fails' = 0
    /\ lastKind' = "init_err"
    /\ script' = "off"
    /\ UNCHANGED <<maxRetries, total, pc, retry, sumHits, srvSid>>

\* An initiating call that returns true only for a page with hits.
InitialSucceedsNonEmpty ==
    /\ pc = "idle" /\ calls < MaxCalls
    /\ err = "nil" /\ id = <<>>
    /\ \E r \in Responses :
          /\ buf' = Body(r)
          /\ total' = AddHits(total, Decoded(buf').hits)
          /\ id' = Decoded(buf').sid
          /\ sumHits' = sumHits + r.hits
          /\ srvSid' = r.sid
          /\ script' = ScriptStep(script, r, sumHits, nreq = 0, buf.total)
    /\ nreq' = nreq + 1 /\ lastReq' = InitRequest
    /\ err' = "nil"
    /\ ret' = (Decoded(buf').hits > 0)
    /\ calls' = calls + 1
    /\ attempts' = 1 /\ fails' = 0
    /\ lastKind' = "init_ok"
    /\ UNCHANGED <<maxRetries, pc, retry>>

\* initialRequest where the response decodes (line 80-87), then
\* scroll.go:98-99: Next returns s.err == nil.
InitialSucceeds ==
    /\ pc = "idle" /\ calls < MaxCalls
    /\ err = "nil" /\ id = <<>>
    /\ \E r \in Responses :
          /\ buf' = Body(r)
          /\ total' = AddHits(total, Decoded(buf').hits)
          /\ id' = Decoded(buf').sid
          /\ sumHits' = sumHits + r.hits
          /\ srvSid' = r.sid
          /\ script' = ScriptStep(script, r, sumHits, nreq = 0, buf.total)
    /\ nreq' = nreq + 1 /\ lastReq' = InitRequest
    /\ err' = "nil"
    /\ ret' = TRUE
    /\ calls' = calls + 1
    /\ attempts' = 1 /\ fails' = 0
    /\ lastKind' = "init_ok"
    /\ UNCHANGED <<maxRetries, pc, retry>>

\* scroll.go:101-105: a continuation call enters the retry loop.
NextBegin ==
    /\ pc = "idle" /\ calls < MaxCalls
    /\ err = "nil" /\ id # <<>>
    /\ retry' = RetryStart
    /\ pc' = "loop"
    /\ calls' = calls + 1
    /\ attempts' = 0 /\ fails' = 0
    /\ lastKind' = "running"
    /\ script' = IF script = "on" THEN "on" ELSE "off"
    /\ UNCHANGED <<maxRetries, id, total, err, buf, ret, nreq, lastReq,
                   sumHits, srvSid>>

\* scroll.go:109: the test that ends the retry loop.
RetriesExhausted == retry = maxRetries

\* scroll.go:109-112: the retry budget is used up.
LoopMaxRetries ==
    /\ pc = "loop"
    /\ RetriesExhausted
    /\ err' = "maxretries"
    /\ ret' = FALSE
    /\ pc' = "idle"
    /\ lastKind' = "cont_err"
    /\ script' = "off"
    /\ UNCHANGED <<maxRetries, id, total, buf, retry, calls, nreq, lastReq,
                   attempts, fails, sumHits, srvSid>>

\* scroll.go:130-133: http.NewRequest fails, nothing is sent.
LoopNewRequestFails ==
    /\ pc = "loop"
    /\ ~RetriesExhausted
    /\ err' = "newrequest"
    /\ ret' = FALSE
    /\ pc' = "idle"
    /\ lastKind' = "cont_err"
    /\ script' = "off"
    /\ UNCHANGED <<maxRetries, id, total, buf, retry, calls, nreq, lastReq,
                   attempts, fails, sumHits, srvSid>>

\* A transport error that is retried as a failed body read is.
LoopTransportRetried ==
    /\ pc = "loop"
    /\ ~RetriesExhausted
    /\ nreq' = nreq + 1 /\ attempts' = attempts + 1
    /\ lastReq' = ScrollRequest(id)
    /\ err' = "transport"
    /\ retry' = retry + 1
    /\ script' = "off"
    /\ UNCHANGED <<maxRetries, id, total, buf, pc, ret, calls, fails, sumHits,
                   srvSid, lastKind>>

\* scroll.go:136-139: pester.Do returns an error.
LoopTransportFails ==
    /\ pc = "loop"
    /\ ~RetriesExhausted
    /\ nreq' = nreq + 1 /\ attempts' = attempts + 1
    /\ lastReq' = ScrollRequest(id)
    /\ err' = "transport"
    /\ ret' = FALSE
    /\ pc' = "idle"
    /\ lastKind' = "cont_err"
    /\ script' = "off"
    /\ UNCHANGED <<maxRetries, id, total, buf, retry, calls, fails,
                   sumHits, srvSid>>

\* scroll.go:141-150: io.Copy fails; the error is logged, the call sleeps
\* and goes round the loop again.
LoopCopyFails ==
    /\ pc = "loop"
    /\ ~RetriesExhausted
    /\ nreq' = nreq + 1 /\ attempts' = attempts + 1
    /\ lastReq' = ScrollRequest(id)
    /\ buf' = PartialBuf
    /\ err' = "eof"
    /\ retry' = retry + 1
    /\ fails' = fails + 1
    /\ script' = "off"
    /\ UNCHANGED <<maxRetries, id, total, pc, ret, calls, sumHits,
                   srvSid, lastKind>>

\* scroll.go:141-145 and 152-154: the body is copied, json.Unmarshal fails.
LoopDecodeFails ==
    /\ pc = "loop"
    /\ ~RetriesExhausted
    /\ nreq' = nreq + 1 /\ attempts' = attempts + 1
    /\ lastReq' = ScrollRequest(id)
    /\ buf' = GarbageBuf
    /\ err' = "decode"
    /\ ret' = FALSE
    /\ pc' = "idle"
    /\ lastKind' = "cont_err"
    /\ script' = "off"
    /\ UNCHANGED <<maxRetries, id, total, retry, calls, fails, sumHits, srvSid>>

\* A continuation call that decodes its page and leaves s.err as the last
\* body read left it.
LoopSucceedsKeepsErr ==
    /\ pc = "loop"
    /\ ~RetriesExhausted
    /\ nreq' = nreq + 1 /\ attempts' = attempts + 1
    /\ lastReq' = ScrollRequest(id)
    /\ \E r \in Responses :
          /\ buf' = Body(r)
          /\ id' = Decoded(buf').sid
          /\ total' = AddHits(total, Decoded(buf').hits)
          /\ ret' = NextResult(Decoded(buf').hits, total', Decoded(buf').total)
          /\ sumHits' = sumHits + r.hits
          /\ srvSid' = r.sid
          /\ script' = ScriptStep(script, r, sumHits, nreq = 0, buf.total)
    /\ err' = err
    /\ pc' = "idle"
    /\ lastKind' = "cont_ok"
    /\ UNCHANGED <<maxRetries, retry, calls, fails>>

\* scroll.go:141-145 and 152-163: the body is copied and decoded.
LoopSucceeds ==
    /\ pc = "loop"
    /\ ~RetriesExhausted
    /\ nreq' = nreq + 1 /\ attempts' = attempts + 1
    /\ lastReq' = ScrollRequest(id)
    /\ \E r \in Responses :
          /\ buf' = Body(r)
          /\ id' = Decoded(buf').sid
          /\ total' = AddHits(total, Decoded(buf').hits)
          /\ ret' = NextResult(Decoded(buf').hits, total', Decoded(buf').total)
          /\ sumHits' = sumHits + r.hits
          /\ srvSid' = r.sid
          /\ script' = ScriptStep(script, r, sumHits, nreq = 0, buf.total)
    /\ err' = "nil"
    /\ pc' = "idle"
    /\ lastKind' = "cont_ok"
    /\ UNCHANGED <<maxRetries, retry, calls, fails>>

(***************************************************************************)
(* MassQuery.Run.  The writer goroutine and the wait for the jobs are the  *)
(* same in src/query.go and in unnamed/part_003; the loop that starts the  *)
(* jobs and the end of a job differ.                                       *)
(***************************************************************************)
Jobs == 1..MaxQueries

Finished(j) == jpc[j] \in {"ok", "err"}

\* The fields of MassQuery and the locals of Run before its first statement
\* that starts a goroutine.
MInit(n, start) ==
    /\ nq = n
    /\ mpc = start
    /\ mnext = 1
    /\ qvar = 0
    /\ jpc = [j \in Jobs |-> "idle"]
    /\ mreq = NoSearch
    /\ sem = 0
    /\ gerr = 0
    /\ closed = FALSE
    /\ wpc = "none"
    /\ wblob = 0
    /\ qErr = FALSE
    /\ sink = <<>>
    /\ runRet = "none"

\* query.go:31-32: one turn of the loop: the loop variable takes the next
\* query and g.Go starts the job, with nothing to wait for.
QMainGo ==
    /\ mpc = "loop" /\ mnext <= nq
    /\ qvar' = mnext
    /\ jpc' = [jpc EXCEPT ![mnext] = "started"]
    /\ mnext' = mnext + 1
    /\ UNCHANGED <<nq, mpc, mreq, sem, gerr, closed, wpc, wblob, qErr, sink, runRet>>

\* query.go:48-62: after the loop the writer goroutine is started; main goes
\* on to g.Wait.
QMainStartWriter ==
    /\ mpc = "loop" /\ mnext > nq
    /\ wpc' = "recv"
    /\ mpc' = "wait"
    /\ UNCHANGED <<nq, mnext, qvar, jpc, mreq, sem, gerr, closed, wblob, qErr, sink, runRet>>

\* part_003:34-48: the writer goroutine is started before the loop.
GMainStartWriter ==
    /\ mpc = "start"
    /\ wpc' = "recv"
    /\ mpc' = IF nq = 0 THEN "wait" ELSE "loop"
    /\ UNCHANGED <<nq, mnext, qvar, jpc, mreq, sem, gerr, closed, wblob, qErr, sink, runRet>>

\* part_003:54: sem <- struct{}{} goes through while the channel has room.
GateOpen == sem < ConcurrencyLimit

\* part_003:53-56: one turn of the loop: a slot of sem is taken, which
\* blocks while sem is full, and g.Go starts the job.
GMainAdmit ==
    /\ mpc = "loop" /\ mnext <= nq
    /\ GateOpen
    /\ sem' = sem + 1
    /\ qvar' = mnext
    /\ jpc' = [jpc EXCEPT ![mnext] = "started"]
    /\ mnext' = mnext + 1
    /\ mpc' = IF mnext' > nq THEN "wait" ELSE "loop"
    /\ UNCHANGED <<nq, mreq, gerr, closed, wpc, wblob, qErr, sink, runRet>>

\* query.go:33-35: the job builds its link from the loop variable, which it
\* shares with the loop (the closure captures query, which the loop goes on
\* writing with no synchronisation): it reads the value of its own turn or
\* any value the loop has written since; then it sends the request.
QJobIssue(j) ==
    /\ jpc[j] = "started"
    /\ \E k \in j..qvar : mreq' = SearchRequest(j, k)
    /\ jpc' = [jpc EXCEPT ![j] = "req"]
    /\ UNCHANGED <<nq, mpc, mnext, qvar, sem, gerr, closed, wpc, wblob, qErr, sink, runRet>>

\* part_003:55-59: the job builds its link from its own copy of the query
\* (query := query) and sends the request.
GJobIssue(j) ==
    /\ jpc[j] = "started"
    /\ mreq' = SearchRequest(j, j)
    /\ jpc' = [jpc EXCEPT ![j] = "req"]
    /\ UNCHANGED <<nq, mpc, mnext, qvar, sem, gerr, closed, wpc, wblob, qErr, sink, runRet>>

\* query.go:35-43, part_003:59-67: the response has come and its body is read.
JobResponse(j) ==
    /\ jpc[j] = "req"
    /\ jpc' = [jpc EXCEPT ![j] = "send"]
    /\ UNCHANGED <<nq, mpc, mnext, qvar, mreq, sem, gerr, closed, wpc, wblob, qErr, sink, runRet>>

\* query.go:35-43, part_003:59-67: pester.Get or ioutil.ReadAll fails and the
\* job returns the error; the errgroup keeps the first error it is given.
\* In part_003 the job returns without <-sem.
JobFails(j) ==
    /\ jpc[j] = "req"
    /\ jpc' = [jpc EXCEPT ![j] = "err"]
    /\ gerr' = IF gerr = 0 THEN j ELSE gerr
    /\ UNCHANGED <<nq, mpc, mnext, qvar, mreq, sem, closed, wpc, wblob, qErr, sink, runRet>>

\* A job that writes its body to the sink itself instead of handing it over.
QJobWritesSink(j) ==
    /\ jpc[j] = "send"
    /\ sink' = Append(sink, [job |-> j, part |-> "body"])
    /\ jpc' = [jpc EXCEPT ![j] = "ok"]
    /\ UNCHANGED <<nq, mpc, mnext, qvar, mreq, sem, gerr, closed, wpc, wblob, qErr, runRet>>

\* query.go:44-45 with query.go:50: ch is unbuffered, the job hands its body
\* to the writer when the writer is at its receive, and returns nil.
QJobSend(j) ==
    /\ jpc[j] = "send"
    /\ wpc = "recv" /\ ~closed
    /\ wpc' = "body" /\ wblob' = j
    /\ jpc' = [jpc EXCEPT ![j] = "ok"]
    /\ UNCHANGED <<nq, mpc, mnext, qvar, mreq, sem, gerr, closed, qErr, sink, runRet>>

\* part_003:68 with part_003:36: the same handover; the job goes on to <-sem.
GJobSend(j) ==
    /\ jpc[j] = "send"
    /\ wpc = "recv" /\ ~closed
    /\ wpc' = "body" /\ wblob' = j
    /\ jpc' = [jpc EXCEPT ![j] = "release"]
    /\ UNCHANGED <<nq, mpc, mnext, qvar, mreq, sem, gerr, closed, qErr, sink, runRet>>

\* part_003:69-70: the job gives its slot back and returns nil.
GJobRelease(j) ==
    /\ jpc[j] = "release"
    /\ sem' = sem - 1
    /\ jpc' = [jpc EXCEPT ![j] = "ok"]
    /\ UNCHANGED <<nq, mpc, mnext, qvar, mreq, gerr, closed, wpc, wblob, qErr, sink, runRet>>

\* query.go:51-53, part_003:37-39: w.Write(blob).  A failed write sets q.Err
\* and may have written a part of the body.
WriterBody ==
    /\ wpc = "body"
    /\ \/ /\ sink' = Append(sink, [job |-> wblob, part |-> "body"])
          /\ qErr' = qErr
       \/ /\ sink' \in {sink, Append(sink, [job |-> wblob, part |-> "cut"])}
          /\ qErr' = TRUE
    /\ wpc' = "newline"
    /\ UNCHANGED <<nq, mpc, mnext, qvar, jpc, mreq, sem, gerr, closed, wblob, runRet>>

\* query.go:54-59, part_003:40-45: io.WriteString(w, "\n"), then the loop
\* breaks if q.Err is set and goes back to its receive otherwise.
WriterNewline ==
    /\ wpc = "newline"
    /\ \/ /\ sink' = Append(sink, [job |-> wblob, part |-> "nl"])
          /\ qErr' = qErr
       \/ /\ sink' = sink
          /\ qErr' = TRUE
    /\ wpc' = IF qErr' THEN "senddone" ELSE "recv"
    /\ wblob' = 0
    /\ UNCHANGED <<nq, mpc, mnext, qvar, jpc, mreq, sem, gerr, closed, runRet>>

\* query.go:50, part_003:36: the range over ch ends when ch is closed.
WriterClosed ==
    /\ wpc = "recv" /\ closed
    /\ wpc' = "senddone"
    /\ UNCHANGED <<nq, mpc, mnext, qvar, jpc, mreq, sem, gerr, closed, wblob, qErr, sink, runRet>>

\* query.go:63-65, part_003:73-75: g.Wait returns when every job started has
\* returned; with an error kept, Run returns it.
MainWaitErr ==
    /\ mpc = "wait"
    /\ \A j \in 1..nq : Finished(j)
    /\ gerr # 0
    /\ mpc' = "returned" /\ runRet' = "err"
    /\ UNCHANGED <<nq, mnext, qvar, jpc, mreq, sem, gerr, closed, wpc, wblob, qErr, sink>>

\* query.go:63-66, part_003:73-76: g.Wait returns nil and ch is closed.
MainWaitOk ==
    /\ mpc = "wait"
    /\ \A j \in 1..nq : Finished(j)
    /\ gerr = 0
    /\ closed' = TRUE
    /\ mpc' = "recvdone"
    /\ UNCHANGED <<nq, mnext, qvar, jpc, mreq, sem, gerr, wpc, wblob, qErr, sink, runRet>>

\* query.go:61 with 67-68, part_003:47 with 77-78: done is unbuffered, the
\* writer's done <- true meets main's <-done; Run returns nil.
MainRecvDone ==
    /\ mpc = "recvdone"
    /\ wpc = "senddone"
    /\ wpc' = "exited"
    /\ mpc' = "returned" /\ runRet' = "nil"
    /\ UNCHANGED <<nq, mnext, qvar, jpc, mreq, sem, gerr, closed, wblob, qErr, sink>>

(***************************************************************************)
(* identifierDump.                                                         *)
(***************************************************************************)
Files == UNION {[1..n -> {"id", "skip"}] : n \in 0..MaxLines}

\* main.go:55-59 with the flags and the file it is given.
IInit(start) ==
    /\ isize \in 1..MaxSize
    /\ ilines \in Files
    /\ ilastnl \in BOOLEAN
    /\ ipos = 0 /\ inext = 0
    /\ ibatch = <<>>
    /\ ireqs = <<>>
    /\ iout = <<>>
    /\ ipc = start
    /\ iret = "none"

\* main.go:97-99: br.ReadString returns io.EOF when no newline is left: at
\* the end of the file, and also with a last line that has no newline, which
\* is returned with io.EOF and dropped by the break.
AtEOF ==
    \/ ipos = Len(ilines)
    \/ ipos = Len(ilines) - 1 /\ ~ilastnl

\* main.go:60-95: queryFunc(b) returns res.  http.NewRequest fails and
\* req.Header.Set is called on the nil request (78-79); or the request is
\* sent and pester.Do fails (83-86), io.Copy fails with the body written in
\* part or not at all (88-90), io.WriteString fails (91-93), or all is
\* written (94).
QueryFunc(b, res) ==
    \/ /\ res = "panic"
       /\ UNCHANGED <<ireqs, iout>>
    \/ /\ res = "err"
       /\ ireqs' = Append(ireqs, b)
       /\ \E t \in {<<>>, <<"cut">>, <<"body">>} :
             iout' = iout \o [k \in 1..Len(t) |->
                                [req |-> Len(ireqs) + 1, part |-> t[k]]]
    \/ /\ res = "nil"
       /\ ireqs' = Append(ireqs, b)
       /\ iout' = iout \o <<[req |-> Len(ireqs) + 1, part |-> "body"],
                             [req |-> Len(ireqs) + 1, part |-> "nl"]>>

\* main.go:103-104: br.ReadString fails with an error other than io.EOF.
IReadFails ==
    /\ ipc = "read" /\ ~AtEOF
    /\ ipc' = "returned" /\ iret' = "err"
    /\ UNCHANGED <<isize, ilines, ilastnl, ipos, inext, ibatch, ireqs, iout>>

\* main.go:106-108: a blank line or a comment is passed over.
ILineSkipped ==
    /\ ipc = "read" /\ ~AtEOF
    /\ ilines[ipos + 1] = "skip"
    /\ ipos' = ipos + 1
    /\ UNCHANGED <<isize, ilines, ilastnl, inext, ibatch, ireqs, iout, ipc, iret>>

\* main.go:110-111: the batch has grown to a multiple of *size.
BatchFull(b) == Len(b) % isize = 0

\* main.go:110-111: the identifier is appended and the batch is not full.
ILineBuffered ==
    /\ ipc = "read" /\ ~AtEOF
    /\ ilines[ipos + 1] = "id"
    /\ ipos' = ipos + 1 /\ inext' = inext + 1
    /\ ibatch' = Append(ibatch, inext')
    /\ ~BatchFull(ibatch')
    /\ UNCHANGED <<isize, ilines, ilastnl, ireqs, iout, ipc, iret>>

\* main.go:110-116: the identifier is appended, the batch is full and
\* queryFunc sends it; the batch is emptied, or identifierDump returns the
\* error of queryFunc.
ILineFlush ==
    /\ ipc = "read" /\ ~AtEOF
    /\ ilines[ipos + 1] = "id"
    /\ ipos' = ipos + 1 /\ inext' = inext + 1
    /\ BatchFull(Append(ibatch, inext'))
    /\ \E res \in {"nil", "err", "panic"} :
          /\ QueryFunc(Append(ibatch, inext'), res)
          /\ IF res = "nil"
             THEN ibatch' = <<>> /\ UNCHANGED <<ipc, iret>>
             ELSE /\ ibatch' = Append(ibatch, inext')
                  /\ ipc' = "returned" /\ iret' = res
    /\ UNCHANGED <<isize, ilines, ilastnl>>

\* main.go:99-101 and 118-121: at io.EOF the loop is left and queryFunc is
\* called with what the batch holds.
IEndFlush ==
    /\ ipc = "read" /\ AtEOF
    /\ \E res \in {"nil", "err", "panic"} :
          /\ QueryFunc(ibatch, res)
          /\ iret' = res
    /\ ipc' = "returned"
    /\ UNCHANGED <<isize, ilines, ilastnl, ipos, inext, ibatch>>

(***************************************************************************)
(* The scroll loop of main.                                                *)
(***************************************************************************)
\* main.go:33, 38, 228: the flags and var i int.
LInit(start) ==
    /\ lsize \in 1..MaxSize
    /\ llimit \in 0..MaxLimit
    /\ li = 0
    /\ lpc = start

\* main.go:229: for ss.Next(): a step A of the call of Next; when Next has
\* returned, the loop goes to its body or ends.  The server puts at most the
\* number of hits asked for (scroll.go:63, size=) in a page.
LCallStep(A) ==
    /\ lpc = "call"
    /\ A
    /\ buf'.hits <= lsize
    /\ lpc' = IF pc' # "idle" THEN "call" ELSE IF ret' THEN "body" ELSE "done"
    /\ UNCHANGED <<lsize, llimit, li>>

\* main.go:232: the test of the limit, after i += *size.
LimitReached(i) == llimit > 0 /\ i >= llimit

\* main.go:230-237: the page is printed, i += *size, and the limit is
\* reached: break.
LBodyBreak ==
    /\ lpc = "body"
    /\ li' = li + lsize
    /\ LimitReached(li')
    /\ lpc' = "done"
    /\ UNCHANGED <<lsize, llimit>>

\* main.go:230-237: the page is printed, i += *size, and the loop goes on.
LBodyContinue ==
    /\ lpc = "body"
    /\ li' = li + lsize
    /\ ~LimitReached(li')
    /\ lpc' = "call"
    /\ UNCHANGED <<lsize, llimit>>

\* A scroller that is not used, a MassQuery that is not run, no identifier
\* file and no scroll loop.
SIdle == SInit /\ maxRetries = 0

MIdle == MInit(0, "returned")

IIdle == IInit("idle") /\ isize = 1 /\ ilines = <<>> /\ ilastnl

LIdle == LInit("idle") /\ lsize = 1 /\ llimit = 0

\* A session of BasicScroller: the state after construction.
Init == SInit /\ MIdle /\ IIdle /\ LIdle

Next ==
    \/ NextTerminal /\ UNCHANGED <<mvars, ivars, lvars>>
    \/ InitialNewRequestFails /\ UNCHANGED <<mvars, ivars, lvars>>
    \/ InitialTransportFails /\ UNCHANGED <<mvars, ivars, lvars>>
    \/ InitialDecodeFails /\ UNCHANGED <<mvars, ivars, lvars>>
    \/ InitialSucceeds /\ UNCHANGED <<mvars, ivars, lvars>>
    \/ NextBegin /\ UNCHANGED <<mvars, ivars, lvars>>
    \/ LoopMaxRetries /\ UNCHANGED <<mvars, ivars, lvars>>
    \/ LoopNewRequestFails /\ UNCHANGED <<mvars, ivars, lvars>>
    \/ LoopTransportFails /\ UNCHANGED <<mvars, ivars, lvars>>
    \/ LoopCopyFails /\ UNCHANGED <<mvars, ivars, lvars>>
    \/ LoopDecodeFails /\ UNCHANGED <<mvars, ivars, lvars>>
    \/ LoopSucceeds /\ UNCHANGED <<mvars, ivars, lvars>>

Spec == Init /\ [][Next]_vars

\* A call of MassQuery.Run of src/query.go
QInit == SIdle /\ IIdle /\ LIdle /\ \E n \in 0..MaxQueries : MInit(n, "loop")

QNext ==
    \/ QMainGo /\ UNCHANGED <<svars, ivars, lvars>>
    \/ QMainStartWriter /\ UNCHANGED <<svars, ivars, lvars>>
    \/ \E j \in Jobs : QJobIssue(j) /\ UNCHANGED <<svars, ivars, lvars>>
    \/ \E j \in Jobs : JobResponse(j) /\ UNCHANGED <<svars, ivars, lvars>>
    \/ \E j \in Jobs : JobFails(j) /\ UNCHANGED <<svars, ivars, lvars>>
    \/ \E j \in Jobs : QJobSend(j) /\ UNCHANGED <<svars, ivars, lvars>>
    \/ WriterBody /\ UNCHANGED <<svars, ivars, lvars>>
    \/ WriterNewline /\ UNCHANGED <<svars, ivars, lvars>>
    \/ WriterClosed /\ UNCHANGED <<svars, ivars, lvars>>
    \/ MainWaitErr /\ UNCHANGED <<svars, ivars, lvars>>
    \/ MainWaitOk /\ UNCHANGED <<svars, ivars, lvars>>
    \/ MainRecvDone /\ UNCHANGED <<svars, ivars, lvars>>

SpecQ == QInit /\ [][QNext]_vars

\* A call of MassQuery.Run of src/unnamed/part_003
GInit == SIdle /\ IIdle /\ LIdle /\ \E n \in 0..MaxQueries : MInit(n, "start")

GNext ==
    \/ GMainStartWriter /\ UNCHANGED <<svars, ivars, lvars>>
    \/ GMainAdmit /\ UNCHANGED <<svars, ivars, lvars>>
    \/ \E j \in Jobs : GJobIssue(j) /\ UNCHANGED <<svars, ivars, lvars>>
    \/ \E j \in Jobs : JobResponse(j) /\ UNCHANGED <<svars, ivars, lvars>>
    \/ \E j \in Jobs : JobFails(j) /\ UNCHANGED <<svars, ivars, lvars>>
    \/ \E j \in Jobs : GJobSend(j) /\ UNCHANGED <<svars, ivars, lvars>>
    \/ \E j \in Jobs : GJobRelease(j) /\ UNCHANGED <<svars, ivars, lvars>>
    \/ WriterBody /\ UNCHANGED <<svars, ivars, lvars>>
    \/ WriterNewline /\ UNCHANGED <<svars, ivars, lvars>>
    \/ WriterClosed /\ UNCHANGED <<svars, ivars, lvars>>
    \/ MainWaitErr /\ UNCHANGED <<svars, ivars, lvars>>
    \/ MainWaitOk /\ UNCHANGED <<svars, ivars, lvars>>
    \/ MainRecvDone /\ UNCHANGED <<svars, ivars, lvars>>

SpecG == GInit /\ [][GNext]_vars

\* A call of identifierDump
IdInit == SIdle /\ MIdle /\ LIdle /\ IInit("read")

IdNext ==
    \/ IReadFails /\ UNCHANGED <<svars, mvars, lvars>>
    \/ ILineSkipped /\ UNCHANGED <<svars, mvars, lvars>>
    \/ ILineBuffered /\ UNCHANGED <<svars, mvars, lvars>>
    \/ ILineFlush /\ UNCHANGED <<svars, mvars, lvars>>
    \/ IEndFlush /\ UNCHANGED <<svars, mvars, lvars>>

SpecId == IdInit /\ [][IdNext]_vars

\* The scroll loop of main over a BasicScroller, whose MaxRetries main leaves
\* at zero (main.go:219-227).  Next is not called again once it has returned
\* false.
LoopInit == SInit /\ maxRetries = 0 /\ MIdle /\ IIdle /\ LInit("call")

LoopNext ==
    \/ LCallStep(InitialNewRequestFails) /\ UNCHANGED <<mvars, ivars>>
    \/ LCallStep(InitialTransportFails) /\ UNCHANGED <<mvars, ivars>>
    \/ LCallStep(InitialDecodeFails) /\ UNCHANGED <<mvars, ivars>>
    \/ LCallStep(InitialSucceeds) /\ UNCHANGED <<mvars, ivars>>
    \/ LCallStep(NextBegin) /\ UNCHANGED <<mvars, ivars>>
    \/ LCallStep(LoopMaxRetries) /\ UNCHANGED <<mvars, ivars>>
    \/ LCallStep(LoopNewRequestFails) /\ UNCHANGED <<mvars, ivars>>
    \/ LCallStep(LoopTransportFails) /\ UNCHANGED <<mvars, ivars>>
    \/ LCallStep(LoopCopyFails) /\ UNCHANGED <<mvars, ivars>>
    \/ LCallStep(LoopDecodeFails) /\ UNCHANGED <<mvars, ivars>>
    \/ LCallStep(LoopSucceeds) /\ UNCHANGED <<mvars, ivars>>
    \/ LBodyBreak /\ UNCHANGED <<svars, mvars, ivars>>
    \/ LBodyContinue /\ UNCHANGED <<svars, mvars, ivars>>

SpecLoop == LoopInit /\ [][LoopNext]_vars

\* A run of main that scrolls (main.go:216-238) or runs the queries of a
\* file (main.go:187-214) with MassQuery.Run of src/query.go.
RunInit ==
    \/ LoopInit
    \/ SIdle /\ IIdle /\ LIdle /\ \E n \in 0..MaxMq : MInit(n, "loop")

\* A call of MassQuery.Run of src/query.go as main makes it, where the Go
\* scheduler lets every goroutine that can run go on, a sender that waits at
\* ch is served when the writer comes back to its receive, every request
\* ends with a response or an error and every write to the sink returns.
MqInit == SIdle /\ IIdle /\ LIdle /\ \E n \in 0..MaxMq : MInit(n, "loop")

QFairness ==
    /\ WF_vars(QMainGo /\ UNCHANGED <<svars, ivars, lvars>>)
    /\ WF_vars(QMainStartWriter /\ UNCHANGED <<svars, ivars, lvars>>)
    /\ \A j \in Jobs :
          /\ WF_vars(QJobIssue(j) /\ UNCHANGED <<svars, ivars, lvars>>)
          /\ WF_vars((JobResponse(j) \/ JobFails(j))
                        /\ UNCHANGED <<svars, ivars, lvars>>)
          /\ SF_vars(QJobSend(j) /\ UNCHANGED <<svars, ivars, lvars>>)
    /\ WF_vars(WriterBody /\ UNCHANGED <<svars, ivars, lvars>>)
    /\ WF_vars(WriterNewline /\ UNCHANGED <<svars, ivars, lvars>>)
    /\ WF_vars(WriterClosed /\ UNCHANGED <<svars, ivars, lvars>>)
    /\ WF_vars(MainWaitErr /\ UNCHANGED <<svars, ivars, lvars>>)
    /\ WF_vars(MainWaitOk /\ UNCHANGED <<svars, ivars, lvars>>)
    /\ WF_vars(MainRecvDone /\ UNCHANGED <<svars, ivars, lvars>>)

SpecQFair == MqInit /\ [][QNext]_vars /\ QFairness

RunNext == LoopNext \/ QNext

SpecRun == RunInit /\ [][RunNext]_vars

(***************************************************************************)
(* Claims about BasicScroller, checked under Spec.                         *)
(***************************************************************************)

\* The last call of Next has returned, and it was a continuation call whose
\* response was decoded.
ContinuationDecoded == pc = "idle" /\ lastKind = "cont_ok"

\* C1: once an error is recorded and Next has returned, every later call of
\* Next returns false at once, sends no request and leaves the token, the
\* document count and the recorded error as they are.
C1_TerminalNextIsNoOp ==
    [][(pc = "idle" /\ err # "nil") =>
          /\ pc' = "idle" /\ ret' = FALSE
          /\ nreq' = nreq /\ lastReq' = lastReq
          /\ id' = id /\ total' = total /\ err' = err]_svars

\* C1 witness: Next was called on a session that had an error recorded.
C1_Witness == lastKind = "terminal" /\ err # "nil" /\ ret = FALSE

\* C2: a continuation Next whose body read failed K times (K >= 1) before a
\* body was read whole succeeds only if K < MaxRetries, then with K + 1
\* requests and no error; a Next that ends with "max retries exceeded" has
\* retried at most MaxRetries times and sent as many requests.
C2_RetryBudget ==
    /\ (ContinuationDecoded /\ fails > 0) =>
          (fails < maxRetries /\ attempts = fails + 1 /\ err = "nil")
    /\ (pc = "idle" /\ lastKind = "cont_err" /\ err = "maxretries") =>
          (fails <= maxRetries /\ attempts <= maxRetries)

\* The retry budget as coded: retry starts at RetryStart, so a call gives up
\* after MaxRetries - RetryStart failed body reads and succeeds after fewer.
RetryBudgetAsCoded ==
    /\ ContinuationDecoded =>
          (fails < maxRetries - RetryStart /\ attempts = fails + 1 /\ err = "nil")
    /\ (pc = "idle" /\ lastKind = "cont_err" /\ err = "maxretries") =>
          (fails = maxRetries - RetryStart /\ attempts = fails)

\* C3: a continuation Next whose response was decoded returns exactly
\* (hits of the page > 0) and (count after adding the page <= reported total).
C3_ContinuationResult ==
    ContinuationDecoded => (ret = (buf.hits > 0 /\ total <= buf.total))

\* C3 witness: a non-empty page pushed the count past the reported total, and
\* Next returned false.
C3_Witness ==
    ContinuationDecoded /\ buf.hits > 0 /\ total > buf.total /\ ~ret

\* C4 as stated: a continuation Next returns false when the page is empty or
\* the count, after adding the page, has reached or exceeded the reported total.
C4_EndsWhenReached ==
    (ContinuationDecoded /\ (buf.hits = 0 \/ total >= buf.total)) => ~ret

\* C4 as amended: a continuation Next returns false when the page is empty or
\* the count, after adding the page, exceeds the reported total; a non-empty
\* page that brings the count exactly to the reported total does not end the
\* scroll.
C4_EndsWhenExceeded ==
    /\ (ContinuationDecoded /\ (buf.hits = 0 \/ total > buf.total)) => ~ret
    /\ (ContinuationDecoded /\ buf.hits > 0 /\ total = buf.total) => ret

\* C4 witness: a non-empty page brought the count exactly to the reported
\* total and Next returned true.
C4_Witness ==
    ContinuationDecoded /\ buf.hits > 0 /\ total = buf.total /\ ret

\* C5: while the responses follow a script of non-empty pages that sum to the
\* reported total, every Next returns true; the Next that receives the empty
\* page after them returns false with no error, and Total() is the reported total.
C5_ScriptTermination ==
    pc = "idle" =>
        /\ (script = "on" /\ calls > 0) => ret
        /\ script = "done" => (~ret /\ err = "nil" /\ total = buf.total)

\* What holds of the script of C5: when the empty page is received by a
\* continuation request, Next returns false with no error and Total() is the
\* reported total.
ScriptEndsOnContinuation ==
    (ContinuationDecoded /\ script = "done") =>
        (~ret /\ err = "nil" /\ total = buf.total)

\* The script of C5 has run to its end on a continuation request.
ScriptRanToEnd == ContinuationDecoded /\ script = "done"

\* C6: a Next that succeeds leaves in the token the _scroll_id of the response
\* it decoded, unchanged; every continuation request carries, as a JSON
\* string, the _scroll_id of the response decoded before it; a Next that
\* fails does not change the token.
C6_TokenFidelity ==
    [][/\ (nreq' > nreq /\ err' = "nil") => id' = srvSid'
       /\ (nreq' > nreq /\ lastReq'.kind = "scroll") =>
              (lastReq'.body = JSONEncode(srvSid) /\ id = srvSid)
       /\ err' # "nil" => id' = id]_svars

\* C6 witness: a continuation request carried a token with an escaped
\* character, and the response brought another token that is now stored.
C6_Witness ==
    /\ ContinuationDecoded
    /\ lastReq.kind = "scroll" /\ lastReq.body = <<0, 2>>
    /\ id = <<1>> /\ srvSid = <<1>>

\* C7: Total() never decreases, a failed or retried attempt leaves it as it
\* is, and it is always the sum of the hits of the pages decoded so far, the
\* initiating page included.
C7_TotalIsMonotoneSum ==
    [][/\ total' >= total
       /\ total' = sumHits'
       /\ err' # "nil" => total' = total]_svars

\* C7 witness: after two hits were counted, a continuation call retried a
\* failed body read and then ended with an error.
C7_Witness ==
    /\ pc = "idle" /\ lastKind = "cont_err" /\ fails > 0
    /\ total >= 2 /\ total = sumHits

\* C8: after a call of Next has returned, every request sent is a
\* continuation request: the initiating request is sent by the first Next only.
C8_InitiatingOnlyFirst ==
    [][(calls > 0 /\ nreq' > nreq) => lastReq'.kind = "scroll"]_svars

(***************************************************************************)
(* Claims about MassQuery.Run, checked under SpecQ (src/query.go), SpecG   *)
(* (unnamed/part_003) and SpecRun (src/query.go as main runs it).          *)
(***************************************************************************)

\* The jobs that have been started and have not received their response.
InFlight == {j \in Jobs : jpc[j] \in {"started", "req"}}

\* C9: the number of jobs that have been admitted and have not yet received
\* their response never exceeds the concurrency limit.
C9_InFlightBounded == Cardinality(InFlight) <= ConcurrencyLimit

\* What holds of C9 in unnamed/part_003: the jobs in flight hold a slot of
\* sem each, and sem never holds more than its capacity.
GatedInFlightBounded ==
    /\ Cardinality(InFlight) <= sem
    /\ sem <= ConcurrencyLimit

\* The gate of unnamed/part_003 is reached: the loop has a job to start and
\* sem is full.
GateSaturated == mpc = "loop" /\ mnext <= nq /\ ~GateOpen

\* C10: once a job has reported an error, no job that was not yet admitted is
\* started, so that every request sent after the first job error comes from
\* a job that was admitted before it.
C10_NoAdmissionAfterError ==
    [][gerr # 0 => \A j \in Jobs : (jpc[j] = "idle" => jpc'[j] = "idle")]_mvars
\* The jobs that g.Go has started.
Admitted == {j \in Jobs : jpc[j] # "idle"}

\* The jobs that handed a body to the writer and returned nil.
Succeeded == {j \in Jobs : jpc[j] = "ok"}

\* The jobs that returned an error.
Failed == {j \in Jobs : jpc[j] = "err"}

\* The writer holds no result that it was handed and has not finished writing.
WriterDrained == wpc \notin {"body", "newline"}

\* The sink holds the whole record of job j: its body and, after it, a newline.
RecordWritten(j) ==
    \E i \in 1..(Len(sink) - 1) :
        /\ sink[i] = [job |-> j, part |-> "body"]
        /\ sink[i + 1] = [job |-> j, part |-> "nl"]

\* C11: when Run has returned, with nil or with an error, every admitted job
\* has finished and the writer has written every result handed to it, so that
\* nothing is written to the sink after the return.
C11_ReturnsAfterDrain ==
    runRet # "none" =>
        /\ \A j \in Admitted : Finished(j)
        /\ WriterDrained

\* What holds of C11: a Run that returns nil has met the writer at done, after
\* every job has finished; a Run that returns an error has waited for the
\* jobs, not for the writer.
ReturnsAfterJobs ==
    /\ runRet # "none" => \A j \in Admitted : Finished(j)
    /\ runRet = "nil" => (WriterDrained /\ wpc = "exited")

\* C12: when exactly one query has failed and Run has returned, Run has
\* returned that job's error and the sink holds the record (body, newline) of
\* every job that completed successfully.  Writes that fail are left aside.
C12_OneFailureKeepsOthers ==
    (runRet # "none" /\ Cardinality(Failed) = 1 /\ ~qErr) =>
        /\ runRet = "err" /\ gerr \in Failed
        /\ \A j \in Succeeded : RecordWritten(j)

\* What holds of C12: the error returned is the failed job's, and the record
\* of every successful job is in the sink once the writer is back at its
\* receive.
OneFailureReturnsIt ==
    (runRet # "none" /\ Cardinality(Failed) = 1) =>
        /\ runRet = "err" /\ gerr \in Failed
        /\ (wpc = "recv" /\ ~qErr) => \A j \in Succeeded : RecordWritten(j)
\* Job j sends its request in this step.
SendsRequest(j) == jpc[j] # "req" /\ jpc'[j] = "req"

\* C13: Run sends exactly one request per element of Queries, and it carries
\* that element's own query: a job sends its request once, when it starts,
\* with its own query in the link; a job that has reported its result or its
\* error does nothing more; a request is sent by a job only; and when Run
\* returns nil every query has been requested and has reported its result.
C13_OneRequestPerQuery ==
    [][/\ \A j \in Jobs :
             /\ SendsRequest(j) =>
                   (jpc[j] = "started" /\ mreq' = SearchRequest(j, j))
             /\ Finished(j) => jpc'[j] = jpc[j]
       /\ mreq' # mreq => \E j \in Jobs : SendsRequest(j)
       /\ runRet' = "nil" => \A j \in 1..nq : jpc'[j] = "ok"]_mvars
\* s is a sequence of whole records: a body and the newline of the same job.
RECURSIVE WholeRecords(_)
WholeRecords(s) ==
    IF Len(s) = 0 THEN TRUE
    ELSE /\ Len(s) >= 2
         /\ s[1].part = "body" /\ s[2].part = "nl" /\ s[1].job = s[2].job
         /\ WholeRecords(SubSeq(s, 3, Len(s)))

\* t is what a record in progress, or a record cut short by a failed write,
\* leaves at the end of the sink.
OpenRecord(t) ==
    \/ /\ Len(t) = 1 /\ t[1].part = "body"
       /\ (wpc = "newline" /\ wblob = t[1].job) \/ qErr
    \/ /\ Len(t) = 1 /\ t[1].part \in {"cut", "nl"} /\ qErr
    \/ /\ Len(t) = 2 /\ t[1].part = "cut" /\ t[2].part = "nl"
       /\ t[1].job = t[2].job /\ qErr

\* The sink is whole records, then at most one open record, and no job has
\* bytes in two places.
RecordsThenOpen ==
    /\ \E n \in 0..Len(sink) :
          /\ WholeRecords(SubSeq(sink, 1, n))
          /\ n = Len(sink) \/ OpenRecord(SubSeq(sink, n + 1, Len(sink)))
    /\ \A i, k \in 1..Len(sink) :
          (sink[i].job = sink[k].job) => (i - k \in {-1, 0, 1})

\* C14 as stated: the sink is at all times a sequence of whole records.
C14_AlwaysWholeRecords == WholeRecords(sink)

\* C14 as amended: only the writer writes to the sink, and what it writes
\* belongs to the one result it was handed last, so that the sink holds the
\* results in the order of their handover with no two jobs interleaved; the
\* sink is whole records followed by at most one record that is in progress
\* (its newline not written yet) or was cut short by a failed write.
C14_SerialRecords ==
    /\ []RecordsThenOpen
    /\ [][sink' # sink =>
             /\ wpc \in {"body", "newline"}
             /\ \E p \in {"body", "cut", "nl"} :
                   sink' = Append(sink, [job |-> wblob, part |-> p])]_mvars

\* C14 witness: two results were handed over against the order of the
\* queries, the first is a whole record and the second awaits its newline.
C14_Witness ==
    /\ Len(sink) = 3 /\ WholeRecords(SubSeq(sink, 1, 2))
    /\ sink[1].job = 2 /\ sink[3] = [job |-> 1, part |-> "body"]
    /\ wpc = "newline" /\ wblob = 1 /\ ~qErr
\* The jobs that have been started and have not handed their result over or
\* returned.
BeforeForward == {j \in Jobs : jpc[j] \in {"started", "req", "send"}}

\* C15: a job is started only with a slot of the gate taken for it, and it
\* has given the slot back when its result is forwarded to the writer: the
\* slots taken are held by jobs that have not forwarded a result yet (jobs
\* that failed, of which the claim says nothing, are left aside).
C15_SlotPerJobInFlight ==
    /\ [](sem <= Cardinality(BeforeForward \cup Failed))
    /\ [][\A j \in Jobs : (jpc[j] = "idle" /\ jpc'[j] # "idle") =>
             (sem < ConcurrencyLimit /\ sem' = sem + 1)]_mvars

\* What holds of C15 in unnamed/part_003: a job is started with a slot taken
\* for it, and the slot is given back only by a job that has handed its
\* result over and then returns nil; a job that returns an error keeps it.
SlotsAsCoded ==
    /\ [](sem = Cardinality(Admitted \ Succeeded))
    /\ [][\A j \in Jobs : (jpc[j] = "idle" /\ jpc'[j] # "idle") =>
             (sem < ConcurrencyLimit /\ sem' = sem + 1)]_mvars
(***************************************************************************)
(* Further claims about BasicScroller, checked under Spec.                 *)
(***************************************************************************)

\* C16: in a continuation Next a request that cannot be built, a transport
\* error and a body that cannot be decoded each end the call at once: Next
\* returns false with that error recorded, the failed attempt is the last
\* one (one attempt in all when no body read failed before it), the retry
\* counter is not advanced, and the token and the count are left alone.
C16_OtherFailuresTerminal ==
    [][(pc = "loop" /\ err' \in {"newrequest", "transport", "decode"}) =>
          /\ pc' = "idle" /\ ret' = FALSE /\ lastKind' = "cont_err"
          /\ retry' = retry /\ fails' = fails
          /\ attempts' <= attempts + 1 /\ nreq' <= nreq + 1
          /\ fails = 0 => attempts' <= 1
          /\ id' = id /\ total' = total]_svars

\* C16 witness: a continuation call ended with a transport error after one
\* request, with no body read failed before it.
C16_Witness ==
    /\ pc = "idle" /\ lastKind = "cont_err" /\ err = "transport"
    /\ attempts = 1 /\ fails = 0 /\ retry = RetryStart /\ ~ret
\* C17: the first Next of a session, when its initiating request succeeds,
\* stores the token of the response, adds the hits of the page to the count
\* and returns true whatever the number of hits; when the request fails it
\* returns false with the error recorded, the token still empty and the
\* count unchanged.
C17_FirstNext ==
    [][(calls = 0 /\ calls' = 1) =>
          /\ nreq' <= 1 /\ (nreq' = 1 => lastReq' = InitRequest)
          /\ err' = "nil" =>
                /\ ret' /\ id' = srvSid'
                /\ total' = total + buf'.hits
          /\ err' # "nil" =>
                /\ ~ret' /\ id' = <<>> /\ total' = total]_svars

\* C17 witness: the first Next received a page with no hits and a token, and
\* returned true.
C17_Witness ==
    /\ calls = 1 /\ pc = "idle" /\ lastKind = "init_ok"
    /\ buf.hits = 0 /\ total = 0 /\ id = <<2>> /\ ret /\ err = "nil"
(***************************************************************************)
(* Claims about identifierDump, checked under SpecId.                      *)
(***************************************************************************)

\* The identifiers from..to, in input order.
Range(from, to) == [k \in 1..(to - from + 1) |-> from + k - 1]

Min(a, b) == IF a <= b THEN a ELSE b

\* Every response sent for was written whole, with its newline after it, in
\* the order of the requests.
ResponsesInOrder ==
    /\ Len(iout) = 2 * Len(ireqs)
    /\ \A i \in 1..Len(ireqs) :
          /\ iout[2 * i - 1] = [req |-> i, part |-> "body"]
          /\ iout[2 * i] = [req |-> i, part |-> "nl"]

\* identifierDump has returned nil on a file whose lines all end with a
\* newline: it has read every identifier of the file.
DumpDone == ipc = "returned" /\ iret = "nil" /\ ilastnl

\* C18: for n >= 1 identifiers and batch size b, identifierDump sends
\* ceil(n/b) requests, request i with the identifiers (i-1)*b+1 .. min(i*b, n)
\* in input order, none without identifiers, and writes each response and a
\* newline to the sink in the order of the requests.
C18_BatchesOfIdentifiers ==
    (DumpDone /\ inext >= 1) =>
        /\ Len(ireqs) = (inext + isize - 1) \div isize
        /\ \A i \in 1..Len(ireqs) :
              ireqs[i] = Range((i - 1) * isize + 1, Min(i * isize, inext))
        /\ \A i \in 1..Len(ireqs) : Len(ireqs[i]) >= 1
        /\ ResponsesInOrder

\* What holds of C18: identifierDump sends one request for every full batch
\* and one more at the end of the file with what is left, which is nothing
\* when the batch size divides n; the responses are written in order.
BatchesAsCoded ==
    DumpDone =>
        /\ Len(ireqs) = (inext \div isize) + 1
        /\ \A i \in 1..Len(ireqs) :
              ireqs[i] = Range((i - 1) * isize + 1, Min(i * isize, inext))
        /\ ResponsesInOrder

(***************************************************************************)
(* Claims about the scroll loop of main, checked under SpecLoop.           *)
(***************************************************************************)

\* C19: with a fetch limit L > 0 the loop stops so that at most L documents
\* are fetched; with L = 0 the loop ends only when Next has returned false.
C19_LimitBoundsFetched ==
    /\ llimit > 0 => total <= llimit
    /\ (llimit = 0 /\ lpc = "done") => ~ret

\* What holds of C19: the loop counts *size for every page, whatever the
\* page holds, and tests the limit after the page is fetched: it stops at the
\* first multiple of *size that reaches L; the pages counted hold at most
\* that many documents, and the page of a Next that returned false is not
\* counted; with L = 0 it ends only when Next has returned false.
LimitAsCoded ==
    /\ llimit > 0 => (li < llimit + lsize /\ total <= li + lsize)
    /\ (llimit > 0 /\ lpc = "call") => (li < llimit /\ total <= li)
    /\ (llimit > 0 /\ lpc = "done" /\ ret) => (li >= llimit /\ total <= li)
    /\ (llimit = 0 /\ lpc = "done") => ~ret

(***************************************************************************)
(* Claims about the requests of a run of main, checked under SpecRun.      *)
(***************************************************************************)

\* C20: every request of the scroller is a GET to the initiating endpoint or
\* to the scroll endpoint, every request of the query runner is a GET to the
\* search endpoint, and once the scroll loop has ended, by the end of the
\* scroll, by the limit or by an error, no request is sent any more: nothing
\* clears the scroll.
C20_GetOnly ==
    /\ [](lastReq # NoReq =>
             /\ lastReq.method = "GET"
             /\ lastReq.path \in {InitRequest.path, ScrollRequest(<<>>).path})
    /\ [](mreq # NoSearch =>
             /\ mreq.method = "GET"
             /\ mreq.path = "{server}/{index}/_search")
    /\ [][lpc = "done" => (nreq' = nreq /\ lastReq' = lastReq)]_vars

\* C20 witness: the scroll loop has ended on an error of a continuation
\* call, whose request was the last one sent.
C20_Witness ==
    /\ lpc = "done" /\ err = "transport" /\ lastKind = "cont_err"
    /\ lastReq.kind = "scroll" /\ lastReq.method = "GET" /\ nreq = 2

(***************************************************************************)
(* Further claims about BasicScroller, checked under Spec and SpecLoop.    *)
(***************************************************************************)

\* C21: when a call of Next has returned, true goes with no error recorded;
\* false with no error recorded means that a continuation page was decoded
\* and was empty or pushed the count past the reported total; and a call
\* whose body read failed and was retried until a page was decoded has no
\* error recorded.
C21_ResultAndErr ==
    (pc = "idle" /\ calls > 0) =>
        /\ ret => err = "nil"
        /\ (~ret /\ err = "nil") =>
              (ContinuationDecoded /\ (buf.hits = 0 \/ total > buf.total))
        /\ (ContinuationDecoded /\ fails > 0) => err = "nil"

\* C21 witness: a continuation call whose body read failed once was retried,
\* decoded a page with hits and returned true with no error recorded.
C21_Witness ==
    /\ ContinuationDecoded /\ fails = 1 /\ attempts = 2
    /\ ret /\ err = "nil" /\ buf.hits > 0

\* C22: Total() is the sum of the hits of the pages for which Next returned
\* true: whenever the count grows, it grows by the hits of the page just
\* decoded and the call returns true, so that the caller is offered the page.
C22_CountedPagesOffered ==
    [][total' # total =>
          (pc' = "idle" /\ total' = total + buf'.hits /\ ret')]_svars

\* What holds of C22: the count grows by the hits of the page just decoded,
\* and the call returns true unless the page pushed the count past the
\* reported total.
CountedPagesAsCoded ==
    [][total' # total =>
          /\ pc' = "idle" /\ total' = total + buf'.hits
          /\ ret' \/ (lastKind' = "cont_ok" /\ total' > buf'.total)]_svars

(***************************************************************************)
(* Further claims about MassQuery.Run.                                     *)
(***************************************************************************)

\* C23: under fair scheduling, with every request ending in a response or
\* an error and every write to the sink returning, Run eventually returns.
C23_RunReturns == <>(runRet # "none")

\* What holds of C23 in src/query.go: Run eventually returns unless a write
\* to the sink has failed.
RunReturnsUnlessWriteFails == <>(runRet # "none" \/ qErr)

\* In unnamed/part_003 the loop waits for a slot while every job started has
\* returned: the slots are held by jobs that returned an error.
GateStuck ==
    /\ mpc = "loop" /\ mnext <= nq /\ ~GateOpen
    /\ \A j \in Admitted : Finished(j)

\* The jobs that have been started and have not returned.
Unfinished == {j \in Admitted : ~Finished(j)}

\* C24: in the gated Run the slots taken are as many as the admitted jobs
\* that have not finished: a job that has finished, with a result or with an
\* error, has given its slot back.
C24_SlotsEqualUnfinished == sem = Cardinality(Unfinished)

\* What holds of C24: the slots taken are as many as the admitted jobs that
\* have not finished and the jobs that returned an error.
SlotsEqualUnfinishedAndFailed == sem = Cardinality(Unfinished \cup Failed)

\* C25: when a write to the sink has failed, Run does not return nil; when
\* Run has returned nil, the record of every result handed to the writer is
\* in the sink, whole.
C25_WriteErrorReturned ==
    /\ (runRet # "none" /\ qErr) => runRet = "err"
    /\ runRet = "nil" => \A j \in Succeeded : RecordWritten(j)

\* What holds of C25: a Run that returns nil when no write has failed has
\* the record of every result in the sink; a failed write is kept in q.Err
\* only.
NilAndNoWriteErrorIsComplete ==
    (runRet = "nil" /\ ~qErr) =>
        /\ \A j \in 1..nq : jpc[j] = "ok" /\ RecordWritten(j)
        /\ Len(sink) = 2 * nq

=============================================================================
